---- MODULE Spec2Model ----
(***************************************************************************)
(* MIDIator: translation of MIDI note events into keyboard and mouse       *)
(* input (src/src/midiator.py).  The main thread runs the event loop of    *)
(* MIDIator.start, which hands every message of the MIDI port to           *)
(* triage_message; a second thread runs mouse_handler, which samples       *)
(* mouse_vector and sends one relative mouse movement per refresh.         *)
(***************************************************************************)
EXTENDS Integers, Sequences, FiniteSets, TLC

(* ------------------------------------------------------------------ *)
(* Bounds of the model                                                *)
(* ------------------------------------------------------------------ *)

\* Number of messages the MIDI port delivers in one run.
MaxEvents == 3

(* ------------------------------------------------------------------ *)
(* Enumerations (src/src/windows/windows_enums.py)                    *)
(* ------------------------------------------------------------------ *)

\* DICodes.W and DICodes.A
W == 17
A == 30

\* MouseFlags
LEFT_CLICK == 2
LEFT_RELEASE == 4
RIGHT_CLICK == 8
RIGHT_RELEASE == 16

\* KeyFlags: RELEASE is 0x0008 | 0x0002
PRESS == 8
RELEASE == 10

\* MouseDirections
LEFT == <<-1, 0>>
RIGHT == <<1, 0>>
UP == <<0, -1>>
DOWN == <<0, 1>>

\* The .name of an enumeration member, as the log lines print it.
DICodeName(code) ==
    CASE code = W -> "W"
      [] code = A -> "A"

MouseFlagName(flag) ==
    CASE flag = LEFT_CLICK -> "LEFT_CLICK"
      [] flag = LEFT_RELEASE -> "LEFT_RELEASE"
      [] flag = RIGHT_CLICK -> "RIGHT_CLICK"
      [] flag = RIGHT_RELEASE -> "RIGHT_RELEASE"

MouseDirectionName(direction) ==
    CASE direction = LEFT -> "LEFT"
      [] direction = RIGHT -> "RIGHT"
      [] direction = UP -> "UP"
      [] direction = DOWN -> "DOWN"

(* ------------------------------------------------------------------ *)
(* Inputs: constructor arguments and MIDI messages                    *)
(* ------------------------------------------------------------------ *)

\* The notes the modelled controller can send.
Notes == {54, 60, 62, 65, 67}

\* The MIDI channels the modelled controller sends on.
Channels == {0, 1}

\* The user configuration of the __main__ block, cut down to one key, two
\* directions and one button; note 60 is bound to nothing.
default_key_binds == (54 :> W)
default_mouse_movement_binds == (65 :> DOWN) @@ (67 :> RIGHT)
default_mouse_button_binds == (62 :> <<LEFT_CLICK, LEFT_RELEASE>>)

\* A configuration whose tables share notes: 54 is a key and a direction,
\* 62 a direction and a button, 65 is in all three tables.
shared_key_binds == (54 :> W) @@ (65 :> A)
shared_mouse_movement_binds ==
    (54 :> LEFT) @@ (62 :> UP) @@ (65 :> DOWN) @@ (67 :> RIGHT)
shared_mouse_button_binds ==
    (60 :> <<LEFT_CLICK, LEFT_RELEASE>>) @@ (62 :> <<RIGHT_CLICK, RIGHT_RELEASE>>)
        @@ (65 :> <<LEFT_CLICK, LEFT_RELEASE>>)

\* The objects MIDIator.__init__ can build: the fields it stores from its
\* arguments.  mouse_sensitivity is a whole number of pixels, like the default
\* 4, so mouse_vector holds Python ints, which do not overflow.
Configurations ==
    { [key_binds |-> default_key_binds,
       mouse_movement_binds |-> default_mouse_movement_binds,
       mouse_button_binds |-> default_mouse_button_binds,
       midi_channel |-> 0, mouse_sensitivity |-> 4, verbose |-> TRUE],
      [key_binds |-> default_key_binds,
       mouse_movement_binds |-> default_mouse_movement_binds,
       mouse_button_binds |-> default_mouse_button_binds,
       midi_channel |-> 1, mouse_sensitivity |-> 1, verbose |-> FALSE],
      [key_binds |-> shared_key_binds,
       mouse_movement_binds |-> shared_mouse_movement_binds,
       mouse_button_binds |-> shared_mouse_button_binds,
       midi_channel |-> 0, mouse_sensitivity |-> 3, verbose |-> TRUE] }

\* The identifier of the __main__ block and two others, as strings of
\* characters.
IDENTIFIER_CASIO == <<"C", "a", "s", "i", "o">>
IDENTIFIER_CTK == <<"c", "t", "k">>
IDENTIFIER_KORG == <<"K", "o", "r", "g">>

Identifiers == {IDENTIFIER_CASIO, IDENTIFIER_CTK, IDENTIFIER_KORG}

\* Names of MIDI input ports.
CASIO_USB_MIDI ==
    <<"C", "a", "s", "i", "o", " ", "U", "S", "B", " ", "M", "I", "D", "I">>
CASIO_CTK == <<"C", "A", "S", "I", "O", " ", "C", "T", "K">>
MIDI_THROUGH == <<"M", "i", "d", "i", " ", "T", "h", "r", "o", "u", "g", "h">>

\* What mido.get_input_names() can return.
Enumerations ==
    { <<>>, <<MIDI_THROUGH>>, <<CASIO_USB_MIDI>>,
      <<MIDI_THROUGH, CASIO_USB_MIDI>>, <<CASIO_CTK, CASIO_USB_MIDI>> }

\* The sets of ports another process may hold open.
BusyPorts == SUBSET {CASIO_USB_MIDI, CASIO_CTK}

\* The messages the port can deliver.  A control_change carries a channel and
\* no note, a clock message carries neither; an attribute a message does not
\* carry is written -1 and is never read (HasChannel guards the channel).
Messages ==
    [type : {"note_on", "note_off"}, channel : Channels, note : Notes]
        \cup { [type |-> "control_change", channel |-> c, note |-> -1] : c \in Channels }
        \cup { [type |-> "clock", channel |-> -1, note |-> -1] }

\* Whether reading message.channel succeeds: system messages have no channel.
HasChannel(message) == message.type # "clock"

(* ------------------------------------------------------------------ *)
(* State                                                              *)
(* ------------------------------------------------------------------ *)

VARIABLES
    identifier,     \* the midi_identifier argument, while __init__ runs
    input_names,    \* what mido.get_input_names() returns, while __init__ runs
    busy,           \* the ports that cannot be opened, while __init__ runs
    midi_port,      \* self.midi_port: the name of the opened port
    self,           \* the other fields __init__ stores from its arguments
    mouse_vector,   \* self.mouse_vector
    mainPc,         \* the main thread: "init", "exited", "start", "loop",
                    \* "crashed" or "returned"
    pumpPc,         \* the mouse_handler thread: "unstarted", "running" or,
                    \* between the two reads of line 70, "unpacking"
    pump_x,         \* mouse_handler's x while line 70 is unpacking
    x_read_at,      \* how many messages had been handled when x was read
    hist,           \* the messages the event loop has taken from the port
    calls,          \* per message of hist, the handlers triage_message invoked
    sent,           \* send_key_event and send_mouse_button_event calls, in order
    logs,           \* the lines printed by log
    sampled,        \* mouse_handler's last reading of mouse_vector
    moved           \* the arguments of its last send_mouse_movement_event

\* What find_device reads and returns.
device == <<identifier, input_names, busy, midi_port>>

\* The unpacking of line 70 in progress.
unpacking == <<pump_x, x_read_at>>

vars == <<device, self, mouse_vector, mainPc, pumpPc, unpacking, hist, calls,
          sent, logs, sampled, moved>>

(* ------------------------------------------------------------------ *)
(* MIDIator.log                                                       *)
(* ------------------------------------------------------------------ *)

log(s, lines, line) == IF s.verbose THEN Append(lines, line) ELSE lines

(* ------------------------------------------------------------------ *)
(* find_device (src/src/midi/midi_io.py)                              *)
(* ------------------------------------------------------------------ *)

\* str.lower() on one character.
LowerChar(c) ==
    CASE c = "A" -> "a" [] c = "B" -> "b" [] c = "C" -> "c" [] c = "D" -> "d"
      [] c = "E" -> "e" [] c = "F" -> "f" [] c = "G" -> "g" [] c = "H" -> "h"
      [] c = "I" -> "i" [] c = "J" -> "j" [] c = "K" -> "k" [] c = "L" -> "l"
      [] c = "M" -> "m" [] c = "N" -> "n" [] c = "O" -> "o" [] c = "P" -> "p"
      [] c = "Q" -> "q" [] c = "R" -> "r" [] c = "S" -> "s" [] c = "T" -> "t"
      [] c = "U" -> "u" [] c = "V" -> "v" [] c = "W" -> "w" [] c = "X" -> "x"
      [] c = "Y" -> "y" [] c = "Z" -> "z" [] OTHER -> c

lower(str) == [i \in 1..Len(str) |-> LowerChar(str[i])]

\* The operator "in" on two strings.
Contains(needle, hay) ==
    \E k \in 0..(Len(hay) - Len(needle)) : SubSeq(hay, k + 1, k + Len(needle)) = needle

\* find_device that goes on to the next matching name when one cannot be opened.
find_device_skip_busy(ident, names, unopenable) ==
    LET matching == {i \in 1..Len(names) :
                        /\ Contains(lower(ident), lower(names[i]))
                        /\ names[i] \notin unopenable}
    IN  IF matching = {}
        THEN [exit |-> TRUE, port |-> <<>>,
              printed |-> "does not identify an active or valid MIDI device"]
        ELSE [exit |-> FALSE, printed |-> "",
              port |-> names[CHOOSE i \in matching : \A j \in matching : i <= j]]

\* The loop returns on the first name that contains the identifier, both in
\* lower case; opening a port held by another process raises and so exits, as
\* does a loop that ends without a match (the else clause of the try).
find_device(ident, names, unopenable) ==
    LET matching == {i \in 1..Len(names) : Contains(lower(ident), lower(names[i]))}
        first == CHOOSE i \in matching : \A j \in matching : i <= j
    IN  IF matching = {}
        THEN [exit |-> TRUE, port |-> <<>>,
              printed |-> "does not identify an active or valid MIDI device"]
        ELSE IF names[first] \in unopenable
        THEN [exit |-> TRUE, port |-> <<>>,
              printed |-> "appears to be in use by another process"]
        ELSE [exit |-> FALSE, port |-> names[first], printed |-> ""]

(* ------------------------------------------------------------------ *)
(* The handlers.  Each maps the effect record                         *)
(* [sent, logs, mouse_vector] before the call to the one after it.    *)
(* ------------------------------------------------------------------ *)

\* KeyFlag with the release flag forgotten.
KeyFlag_press_only(message) == PRESS

KeyFlag(message) == IF message.type = "note_on" THEN PRESS ELSE RELEASE

translate_keystroke(s, st, message) ==
    LET direct_input_key == s.key_binds[message.note]
        logged == IF message.type = "note_on"
                  THEN log(s, st.logs, <<"Key", DICodeName(direct_input_key)>>)
                  ELSE st.logs
    IN  [st EXCEPT !.logs = logged,
                   !.sent = Append(@, <<"send_key_event", direct_input_key,
                                        KeyFlag(message)>>)]

\* polarity with the sign of note_off forgotten.
polarity_unsigned(message) == 1

polarity(message) == IF message.type = "note_on" THEN 1 ELSE -1

\* translate_mouse_move with mouse_sensitivity applied to note_on only.
translate_mouse_move_unit_release(s, st, message) ==
    LET direction == s.mouse_movement_binds[message.note]
        logged == IF message.type = "note_on"
                  THEN log(s, st.logs, <<"Mouse", MouseDirectionName(direction)>>)
                  ELSE st.logs
        step == IF message.type = "note_on" THEN s.mouse_sensitivity ELSE -1
    IN  [st EXCEPT !.logs = logged,
                   !.mouse_vector =
                       <<@[1] + direction[1] * step, @[2] + direction[2] * step>>]

\* translate_mouse_move that releases a direction only while the vector moves
\* that way.
translate_mouse_move_if_held(s, st, message) ==
    LET direction == s.mouse_movement_binds[message.note]
        logged == IF message.type = "note_on"
                  THEN log(s, st.logs, <<"Mouse", MouseDirectionName(direction)>>)
                  ELSE st.logs
        held == /\ direction[1] * st.mouse_vector[1] >= 0
                /\ direction[2] * st.mouse_vector[2] >= 0
                /\ direction[1] * st.mouse_vector[1] + direction[2] * st.mouse_vector[2] > 0
        sign == IF message.type = "note_on" THEN 1 ELSE IF held THEN -1 ELSE 0
    IN  [st EXCEPT !.logs = logged,
                   !.mouse_vector =
                       <<@[1] + sign * direction[1] * s.mouse_sensitivity,
                         @[2] + sign * direction[2] * s.mouse_sensitivity>>]

translate_mouse_move(s, st, message) ==
    LET direction == s.mouse_movement_binds[message.note]
        logged == IF message.type = "note_on"
                  THEN log(s, st.logs, <<"Mouse", MouseDirectionName(direction)>>)
                  ELSE st.logs
        x == direction[1]
        y == direction[2]
    IN  [st EXCEPT !.logs = logged,
                   !.mouse_vector =
                       <<@[1] + polarity(message) * x * s.mouse_sensitivity,
                         @[2] + polarity(message) * y * s.mouse_sensitivity>>]

\* ButtonFlag with the two flags of the binding taken in the other order.
ButtonFlag_swapped(binding, message) ==
    IF message.type = "note_on" THEN binding[2] ELSE binding[1]

ButtonFlag(binding, message) ==
    IF message.type = "note_on" THEN binding[1] ELSE binding[2]

translate_mouse_button(s, st, message) ==
    LET binding == s.mouse_button_binds[message.note]
        logged == IF message.type = "note_on"
                  THEN log(s, st.logs, <<"Mouse", MouseFlagName(binding[1])>>)
                  ELSE st.logs
    IN  [st EXCEPT !.logs = logged,
                   !.sent = Append(@, <<"send_mouse_button_event",
                                        ButtonFlag(binding, message)>>)]

(* ------------------------------------------------------------------ *)
(* MIDIator.triage_message                                            *)
(* ------------------------------------------------------------------ *)

\* Relevant without the comparison of the channel.
Relevant_any_channel(s, message) == message.type \in {"note_on", "note_off"}

\* The condition of line 85, for a message that has a channel: of the types
\* of Messages, "note_on" and "note_off" are those that contain "note_".
Relevant(s, message) ==
    message.channel = s.midi_channel /\ message.type \in {"note_on", "note_off"}

\* Branches with the three handlers under independent ifs.
Branches_independent_ifs(s, message) ==
    LET handlers ==
            (IF message.note \in DOMAIN s.key_binds
             THEN <<"translate_keystroke">> ELSE <<>>)
            \o (IF message.note \in DOMAIN s.mouse_movement_binds
                THEN <<"translate_mouse_move">> ELSE <<>>)
            \o (IF message.note \in DOMAIN s.mouse_button_binds
                THEN <<"translate_mouse_button">> ELSE <<>>)
    IN  IF handlers # <<>> THEN handlers
        ELSE IF message.type = "note_on" THEN <<"not_bound">>
        ELSE <<>>

\* Branches with a final else in place of the elif on note_on.
Branches_else_not_bound(s, message) ==
    IF message.note \in DOMAIN s.key_binds THEN <<"translate_keystroke">>
    ELSE IF message.note \in DOMAIN s.mouse_movement_binds THEN <<"translate_mouse_move">>
    ELSE IF message.note \in DOMAIN s.mouse_button_binds THEN <<"translate_mouse_button">>
    ELSE <<"not_bound">>

\* The branches of the if/elif chain of lines 89-96 that run, in order: the
\* chain runs the first whose condition holds, and none when none holds.
Branches(s, message) ==
    IF message.note \in DOMAIN s.key_binds THEN <<"translate_keystroke">>
    ELSE IF message.note \in DOMAIN s.mouse_movement_binds THEN <<"translate_mouse_move">>
    ELSE IF message.note \in DOMAIN s.mouse_button_binds THEN <<"translate_mouse_button">>
    ELSE IF message.type = "note_on" THEN <<"not_bound">>
    ELSE <<>>

RunBranch(s, st, message, branch) ==
    CASE branch = "translate_keystroke" -> translate_keystroke(s, st, message)
      [] branch = "translate_mouse_move" -> translate_mouse_move(s, st, message)
      [] branch = "translate_mouse_button" -> translate_mouse_button(s, st, message)
      [] branch = "not_bound" -> [st EXCEPT !.logs = log(s, @, <<"Key not bound.">>)]

RECURSIVE RunBranches(_, _, _, _)
RunBranches(s, st, message, branches) ==
    IF branches = <<>> THEN st
    ELSE RunBranches(s, RunBranch(s, st, message, Head(branches)), message,
                     Tail(branches))

\* The handlers among the branches: the "not bound" branch only logs.
Handlers(branches) == SelectSeq(branches, LAMBDA b : b # "not_bound")

\* The effect of triage_message on a message whose channel can be read.
triage_message(s, st, message) ==
    IF Relevant(s, message)
    THEN LET received == IF message.type = "note_on"
                         THEN [st EXCEPT !.logs =
                                   log(s, @, <<"Received MIDI code", message.note>>)]
                         ELSE st
         IN  RunBranches(s, received, message, Branches(s, message))
    ELSE st

\* The handlers triage_message invokes for the message.
Invoked(s, message) ==
    IF Relevant(s, message) THEN Handlers(Branches(s, message)) ELSE <<>>

(* ------------------------------------------------------------------ *)
(* MIDIator.mouse_handler                                             *)
(* ------------------------------------------------------------------ *)

\* Rounding down instead: the quotient of floor division.
Trunc_floor(n, d) == n \div d

\* int(): truncation toward zero of the quotient n / d, d > 0.
Trunc(n, d) == IF n >= 0 THEN n \div d ELSE -((-n) \div d)

\* sin_45 = sin(45) is the sine of 45 radians, 0.8509035245341184.  The
\* fraction below gives the same int(v * sin_45) for every |v| <= 2000.
SIN_45_NUM == 850903
SIN_45_DEN == 1000000

Abs(v) == IF v >= 0 THEN v ELSE -v

\* Scaled without the comparison of the magnitudes.
Scaled_any_motion(x, y) == x # 0

\* Whether the loop body scales the sample (line 72).
Scaled(x, y) == Abs(x) = Abs(y) /\ x # 0

\* The arguments of send_mouse_movement_event for a sample (x, y).
Delta(x, y) ==
    IF Scaled(x, y)
    THEN <<Trunc(x * SIN_45_NUM, SIN_45_DEN), Trunc(y * SIN_45_NUM, SIN_45_DEN)>>
    ELSE <<x, y>>

(* ------------------------------------------------------------------ *)
(* Initial state and actions                                          *)
(* ------------------------------------------------------------------ *)

\* The state before MIDIator(...) is called: the arguments and the ports.
InitStartup ==
    /\ identifier \in Identifiers
    /\ input_names \in Enumerations
    /\ busy \in BusyPorts
    /\ midi_port = <<>>
    /\ self \in Configurations
    /\ mouse_vector = <<>>
    /\ mainPc = "init"
    /\ pumpPc = "unstarted"
    /\ pump_x = 0
    /\ x_read_at = 0
    /\ hist = <<>>
    /\ calls = <<>>
    /\ sent = <<>>
    /\ logs = <<>>
    /\ sampled = <<>>
    /\ moved = <<>>

\* MIDIator.__init__: find_device either opens a port or prints an error and
\* exits the process.  The identifier and the list of names are not kept.
Construct ==
    /\ mainPc = "init"
    /\ LET found == find_device(identifier, input_names, busy)
           begun == log(self, log(self, logs,
                        <<"{+} Initializing MIDIator...">>),
                        <<"    > Connecting to MIDI controller by identifier">>)
       IN  IF found.exit
           THEN /\ mainPc' = "exited"
                /\ logs' = Append(begun, <<"Error", found.printed>>)
                /\ UNCHANGED <<midi_port, mouse_vector>>
           ELSE /\ mainPc' = "start"
                /\ midi_port' = found.port
                /\ mouse_vector' = <<0, 0>>
                /\ logs' = log(self, log(self, begun, <<"Done.">>),
                               <<"    > Initialization complete. ">>)
    /\ identifier' = <<>>
    /\ input_names' = <<>>
    /\ busy' = {}
    /\ UNCHANGED <<self, pumpPc, unpacking, hist, calls, sent, sampled, moved>>

\* The state after __init__ returns, with the port of the __main__ block open.
Init ==
    /\ identifier = <<>>
    /\ input_names = <<>>
    /\ busy = {}
    /\ midi_port = CASIO_USB_MIDI
    /\ self \in Configurations
    /\ mouse_vector = <<0, 0>>
    /\ mainPc = "start"
    /\ pumpPc = "unstarted"
    /\ pump_x = 0
    /\ x_read_at = 0
    /\ hist = <<>>
    /\ calls = <<>>
    /\ sent = <<>>
    /\ logs = log(self, log(self, log(self, log(self, <<>>,
                  <<"{+} Initializing MIDIator...">>),
                  <<"    > Connecting to MIDI controller by identifier">>),
                  <<"Done.">>),
                  <<"    > Initialization complete. ">>)
    /\ sampled = <<>>
    /\ moved = <<>>

\* MIDIator.start up to the event loop: the mouse handler thread is spawned.
Start ==
    /\ mainPc = "start"
    /\ mainPc' = "loop"
    /\ pumpPc' = "running"
    /\ logs' = log(self, log(self, log(self, logs,
                   <<"{+} Spawning mouse handler thread... ">>),
                   <<"Done.">>),
                   <<"{+} Handling MIDI events...">>)
    /\ UNCHANGED <<device, self, mouse_vector, unpacking, hist, calls, sent, sampled, moved>>

\* One iteration of the event loop: the port delivers message and
\* triage_message handles it.  Reading the channel of a message that has none
\* raises AttributeError, which ends the main thread.
Dispatch(message) ==
    /\ mainPc = "loop"
    /\ Len(hist) < MaxEvents
    /\ hist' = Append(hist, message)
    /\ IF HasChannel(message)
       THEN LET st == triage_message(self,
                          [sent |-> sent, logs |-> logs, mouse_vector |-> mouse_vector],
                          message)
            IN  /\ sent' = st.sent
                /\ logs' = st.logs
                /\ mouse_vector' = st.mouse_vector
                /\ calls' = Append(calls, Invoked(self, message))
                /\ mainPc' = "loop"
       ELSE /\ mainPc' = "crashed"
            /\ calls' = Append(calls, <<>>)
            /\ UNCHANGED <<sent, logs, mouse_vector>>
    /\ UNCHANGED <<device, self, pumpPc, unpacking, sampled, moved>>

\* An iteration that sends the mean of the new movement and the last one.
Tick_smoothed ==
    /\ pumpPc = "running"
    /\ sampled' = mouse_vector
    /\ moved' = LET new == Delta(mouse_vector[1], mouse_vector[2])
                IN  IF moved = <<>> THEN new
                    ELSE <<Trunc(new[1] + moved[1], 2), Trunc(new[2] + moved[2], 2)>>
    /\ UNCHANGED <<device, self, mouse_vector, mainPc, pumpPc, unpacking, hist, calls,
                   sent, logs>>

\* An iteration that takes the movement out of mouse_vector when it samples it.
Tick_consuming ==
    /\ pumpPc = "running"
    /\ sampled' = mouse_vector
    /\ moved' = Delta(mouse_vector[1], mouse_vector[2])
    /\ mouse_vector' = <<0, 0>>
    /\ UNCHANGED <<device, self, mainPc, pumpPc, unpacking, hist, calls, sent, logs>>

\* One iteration of mouse_handler's loop.
Tick ==
    /\ pumpPc = "running"
    /\ sampled' = mouse_vector
    /\ moved' = Delta(mouse_vector[1], mouse_vector[2])
    /\ UNCHANGED <<device, self, mouse_vector, mainPc, pumpPc, unpacking, hist, calls,
                   sent, logs>>

Next ==
    \/ Start
    \/ \E message \in Messages : Dispatch(message)
    \/ Tick

Spec == Init /\ [][Next]_vars

\* The program from the call of the constructor on.
NextStartup ==
    \/ Construct
    \/ Next

SpecStartup == InitStartup /\ [][NextStartup]_vars

(* ------------------------------------------------------------------ *)
(* The two threads step by step.  In Tick the unpacking of line 70 is  *)
(* one step, as it is under a global interpreter lock; an interpreter  *)
(* without one reads the two elements one after the other, and the     *)
(* main thread can run in between.  The main thread also stops when    *)
(* the port is closed, which ends the for loop of start().             *)
(* ------------------------------------------------------------------ *)

\* Line 70, first element: x is read.
TickReadX ==
    /\ pumpPc = "running"
    /\ pumpPc' = "unpacking"
    /\ pump_x' = mouse_vector[1]
    /\ x_read_at' = Len(hist)
    /\ UNCHANGED <<device, self, mouse_vector, mainPc, hist, calls, sent, logs,
                   sampled, moved>>

\* A second read that takes y from the previous sample instead of the list.
TickReadY_cached_y ==
    /\ pumpPc = "unpacking"
    /\ pumpPc' = "running"
    /\ sampled' = <<pump_x, IF sampled = <<>> THEN 0 ELSE sampled[2]>>
    /\ moved' = Delta(sampled'[1], sampled'[2])
    /\ pump_x' = 0
    /\ x_read_at' = 0
    /\ UNCHANGED <<device, self, mouse_vector, mainPc, hist, calls, sent, logs>>

\* A second read that stores the sample back into mouse_vector.
TickReadY_write_back ==
    /\ pumpPc = "unpacking"
    /\ pumpPc' = "running"
    /\ sampled' = <<pump_x, mouse_vector[2]>>
    /\ moved' = Delta(pump_x, mouse_vector[2])
    /\ mouse_vector' = <<pump_x, mouse_vector[2]>>
    /\ pump_x' = 0
    /\ x_read_at' = 0
    /\ UNCHANGED <<device, self, mainPc, hist, calls, sent, logs>>

\* A second read after which a movement of (0, 0) is not sent.
TickReadY_skip_still ==
    /\ pumpPc = "unpacking"
    /\ pumpPc' = "running"
    /\ sampled' = <<pump_x, mouse_vector[2]>>
    /\ moved' = IF Delta(pump_x, mouse_vector[2]) = <<0, 0>>
                THEN moved
                ELSE Delta(pump_x, mouse_vector[2])
    /\ pump_x' = 0
    /\ x_read_at' = 0
    /\ UNCHANGED <<device, self, mouse_vector, mainPc, hist, calls, sent, logs>>

\* Line 70, second element, and lines 72 to 78: y is read and the movement is
\* sent.  x is not read again before the next unpacking sets it.
TickReadY ==
    /\ pumpPc = "unpacking"
    /\ pumpPc' = "running"
    /\ sampled' = <<pump_x, mouse_vector[2]>>
    /\ moved' = Delta(pump_x, mouse_vector[2])
    /\ pump_x' = 0
    /\ x_read_at' = 0
    /\ UNCHANGED <<device, self, mouse_vector, mainPc, hist, calls, sent, logs>>

\* The port is closed: the for loop of start() ends and start() returns.
PortCloses ==
    /\ mainPc = "loop"
    /\ mainPc' = "returned"
    /\ UNCHANGED <<device, self, mouse_vector, pumpPc, unpacking, hist, calls, sent,
                   logs, sampled, moved>>

\* The messages of a device that sends on the configured channel only; line 85
\* lets no other message with a channel reach the handlers.
DeviceMessages ==
    {message \in Messages : HasChannel(message) => message.channel = self.midi_channel}

NextThreads ==
    \/ Start
    \/ \E message \in DeviceMessages : Dispatch(message)
    \/ PortCloses
    \/ TickReadX
    \/ TickReadY

SpecThreads == Init /\ [][NextThreads]_vars

\* The scheduler lets the mouse_handler thread run again and again.
FairThreads == SpecThreads /\ WF_vars(TickReadX) /\ WF_vars(TickReadY)

(* ------------------------------------------------------------------ *)
(* Vocabulary of the properties                                       *)
(* ------------------------------------------------------------------ *)

NoteOn(channel, note) == [type |-> "note_on", channel |-> channel, note |-> note]
NoteOff(channel, note) == [type |-> "note_off", channel |-> channel, note |-> note]

IsNote(message) == message.type \in {"note_on", "note_off"}

\* The event loop has finished with every message of hist.
Processed == mainPc \in {"loop", "crashed"}

\* The step is one iteration of the event loop, and Handled its message.
DispatchStep == Len(hist') = Len(hist) + 1
Handled == hist'[Len(hist')]

\* seq without its elements i and j.
Without(seq, i, j) ==
    LET keep == [k \in 1..Len(seq) |-> k # i /\ k # j]
        Pos(k) == CHOOSE p \in 1..Len(seq) :
                      keep[p] /\ Cardinality({q \in 1..p : keep[q]}) = k
    IN  [k \in 1..Cardinality({q \in 1..Len(seq) : keep[q]}) |-> seq[Pos(k)]]

\* mouse_vector after the event loop has handled seq, starting from vector.
RECURSIVE VectorAfter(_, _, _)
VectorAfter(s, vector, seq) ==
    IF seq = <<>> \/ ~HasChannel(Head(seq)) THEN vector
    ELSE VectorAfter(s,
             triage_message(s, [sent |-> <<>>, logs |-> <<>>, mouse_vector |-> vector],
                            Head(seq)).mouse_vector,
             Tail(seq))

(* ------------------------------------------------------------------ *)
(* C1                                                                 *)
(* ------------------------------------------------------------------ *)

\* C1: for a note of mouse_movement_binds, once the event loop has handled
\* note_on and later note_off for it on the configured channel, with any
\* messages in between, mouse_vector is what it would be had the two messages
\* not been delivered; with nothing in between and nothing after, that is the
\* vector before the pair.
C1_OnOffPairCancels ==
    Processed =>
        \A i, j \in 1..Len(hist) :
            ( /\ i < j
              /\ hist[i].note \in DOMAIN self.mouse_movement_binds
              /\ hist[i] = NoteOn(self.midi_channel, hist[i].note)
              /\ hist[j] = NoteOff(self.midi_channel, hist[i].note) )
            => mouse_vector = VectorAfter(self, <<0, 0>>, Without(hist, i, j))

\* A held direction is released after another direction was pressed: only the
\* other direction's contribution is left.
C1_Witness ==
    /\ self.midi_channel = 0
    /\ self.mouse_sensitivity = 4
    /\ hist = <<NoteOn(0, 67), NoteOn(0, 65), NoteOff(0, 67)>>
    /\ mouse_vector = <<0, 4>>

(* ------------------------------------------------------------------ *)
(* C2                                                                 *)
(* ------------------------------------------------------------------ *)

\* int(v * sin(45 degrees)), with sin(45 degrees) = 0.70710678...
ScaledBySin45Degrees(v) == Trunc(v * 707107, 1000000)

\* C2: whenever mouse_handler samples (x, y) with x # 0 and |x| = |y|, it sends
\* each component scaled by sin(45 degrees) and truncated toward zero, so (4, 4)
\* is sent as (2, 2), and the delta sent is no longer than the cardinal delta
\* (|x|, 0).
C2_DiagonalScaledBySin45Degrees ==
    (sampled # <<>> /\ sampled[1] # 0 /\ Abs(sampled[1]) = Abs(sampled[2]))
        => /\ moved = <<ScaledBySin45Degrees(sampled[1]),
                        ScaledBySin45Degrees(sampled[2])>>
           /\ moved[1] * moved[1] + moved[2] * moved[2] <= sampled[1] * sampled[1]

(* ------------------------------------------------------------------ *)
(* C3                                                                 *)
(* ------------------------------------------------------------------ *)

\* C3: whenever mouse_handler samples (x, y) with x = 0 or |x| # |y|, it sends
\* exactly (x, y).
C3_NonDiagonalUnscaled ==
    (sampled # <<>> /\ (sampled[1] = 0 \/ Abs(sampled[1]) # Abs(sampled[2])))
        => moved = sampled

\* One direction pressed twice and another once: (8, 4) is sent as it is.
C3_Witness == sampled = <<8, 4>> /\ moved = <<8, 4>>

(* ------------------------------------------------------------------ *)
(* C4                                                                 *)
(* ------------------------------------------------------------------ *)

\* C4: an iteration of the event loop whose message carries a channel other
\* than midi_channel, whatever its type and note, invokes no handler, sends no
\* key or button event, prints nothing and leaves mouse_vector as it was.
C4_OtherChannelIgnored ==
    [][ (DispatchStep /\ HasChannel(Handled) /\ Handled.channel # self.midi_channel)
            => /\ calls' = Append(calls, <<>>)
               /\ sent' = sent
               /\ logs' = logs
               /\ mouse_vector' = mouse_vector ]_vars

\* note_on for a key-bound note arrives on the other channel.
C4_Witness ==
    /\ hist # <<>>
    /\ hist[Len(hist)].type = "note_on"
    /\ hist[Len(hist)].channel # self.midi_channel
    /\ hist[Len(hist)].note \in DOMAIN self.key_binds
    /\ sent = <<>>

(* ------------------------------------------------------------------ *)
(* C5                                                                 *)
(* ------------------------------------------------------------------ *)

\* C5: an iteration of the event loop whose message is neither note_on nor
\* note_off, with or without a channel, sends nothing, prints nothing, leaves
\* mouse_vector as it was, and the event loop goes on to the next message.
C5_NonNoteDiscarded ==
    [][ (DispatchStep /\ ~IsNote(Handled))
            => /\ calls' = Append(calls, <<>>)
               /\ sent' = sent
               /\ logs' = logs
               /\ mouse_vector' = mouse_vector
               /\ mainPc' = "loop" ]_vars

(* ------------------------------------------------------------------ *)
(* C6                                                                 *)
(* ------------------------------------------------------------------ *)

\* The note is in none of the three tables.
Unbound(note) ==
    /\ note \notin DOMAIN self.key_binds
    /\ note \notin DOMAIN self.mouse_movement_binds
    /\ note \notin DOMAIN self.mouse_button_binds

\* C6: an iteration of the event loop whose message is note_on or note_off for
\* a note in none of the tables invokes no handler, sends no key or button
\* event and leaves mouse_vector as it was.  All it does is print the
\* "not bound" line (after the "Received" prefix), through log and so when
\* verbose is set, for note_on on the configured channel; note_off prints
\* nothing.
C6_UnboundNoteOnlyDiagnosed ==
    [][ (DispatchStep /\ IsNote(Handled) /\ Unbound(Handled.note))
            => /\ calls' = Append(calls, <<>>)
               /\ sent' = sent
               /\ mouse_vector' = mouse_vector
               /\ mainPc' = "loop"
               /\ logs' = IF /\ Handled.type = "note_on"
                             /\ Handled.channel = self.midi_channel
                             /\ self.verbose
                          THEN logs \o <<<<"Received MIDI code", Handled.note>>,
                                         <<"Key not bound.">>>>
                          ELSE logs ]_vars

\* note_on for the unbound note 60 has been diagnosed.
C6_Witness ==
    /\ hist # <<>>
    /\ hist[Len(hist)] = NoteOn(self.midi_channel, 60)
    /\ Unbound(60)
    /\ logs # <<>>
    /\ logs[Len(logs)] = <<"Key not bound.">>
    /\ sent = <<>>
    /\ mouse_vector = <<0, 0>>

(* ------------------------------------------------------------------ *)
(* C7                                                                 *)
(* ------------------------------------------------------------------ *)

\* C7: an iteration of the event loop whose message is note_on, or note_off,
\* on the configured channel for a note n of key_binds sends exactly one event,
\* the press, or the release, of key_binds[n], and nothing else; so note_on
\* directly followed by note_off sends the press and then the release of the
\* same key.
C7_KeyPressThenRelease ==
    [][ (DispatchStep /\ IsNote(Handled) /\ Handled.channel = self.midi_channel
            /\ Handled.note \in DOMAIN self.key_binds)
            => LET k == self.key_binds[Handled.note]
               IN  /\ sent' = Append(sent,
                          <<"send_key_event", k,
                            IF Handled.type = "note_on" THEN PRESS ELSE RELEASE>>)
                   /\ mouse_vector' = mouse_vector
                   /\ ( /\ Handled.type = "note_off"
                        /\ hist # <<>>
                        /\ hist[Len(hist)] = NoteOn(self.midi_channel, Handled.note) )
                      => SubSeq(sent', Len(sent') - 1, Len(sent'))
                             = <<<<"send_key_event", k, PRESS>>,
                                 <<"send_key_event", k, RELEASE>>>> ]_vars

\* The key-bound note 54 was pressed and released.
C7_Witness ==
    /\ hist = <<NoteOn(self.midi_channel, 54), NoteOff(self.midi_channel, 54)>>
    /\ sent = <<<<"send_key_event", W, PRESS>>, <<"send_key_event", W, RELEASE>>>>

(* ------------------------------------------------------------------ *)
(* C8                                                                 *)
(* ------------------------------------------------------------------ *)

\* What C8 and its amendment say of the step, for a note of
\* mouse_button_binds with binding (press, release).
ButtonEventSent ==
    LET binding == self.mouse_button_binds[Handled.note]
    IN  /\ sent' = Append(sent,
               <<"send_mouse_button_event",
                 IF Handled.type = "note_on" THEN binding[1] ELSE binding[2]>>)
        /\ mouse_vector' = mouse_vector
        /\ ( /\ Handled.type = "note_off"
             /\ hist # <<>>
             /\ hist[Len(hist)] = NoteOn(self.midi_channel, Handled.note) )
           => SubSeq(sent', Len(sent') - 1, Len(sent'))
                  = <<<<"send_mouse_button_event", binding[1]>>,
                      <<"send_mouse_button_event", binding[2]>>>>

\* C8 as stated: an iteration of the event loop whose message is note_on, or
\* note_off, on the configured channel for any note n of mouse_button_binds
\* sends exactly the press, or the release, flag of the binding and leaves
\* mouse_vector as it was; note_on directly followed by note_off sends the
\* press and then the release flag.
C8_Original ==
    [][ (DispatchStep /\ IsNote(Handled) /\ Handled.channel = self.midi_channel
            /\ Handled.note \in DOMAIN self.mouse_button_binds)
            => ButtonEventSent ]_vars

\* C8 for tables that share no note: the same, for the notes of
\* mouse_button_binds that are in neither key_binds nor mouse_movement_binds.
C8_ButtonPressThenRelease ==
    [][ (DispatchStep /\ IsNote(Handled) /\ Handled.channel = self.midi_channel
            /\ Handled.note \in DOMAIN self.mouse_button_binds
            /\ Handled.note \notin DOMAIN self.key_binds
            /\ Handled.note \notin DOMAIN self.mouse_movement_binds)
            => ButtonEventSent ]_vars

\* The button-bound note 62 was pressed and released.
C8_Witness ==
    /\ 62 \in DOMAIN self.mouse_button_binds
    /\ 62 \notin DOMAIN self.mouse_movement_binds
    /\ hist = <<NoteOn(self.midi_channel, 62), NoteOff(self.midi_channel, 62)>>
    /\ sent = <<<<"send_mouse_button_event", LEFT_CLICK>>,
                <<"send_mouse_button_event", LEFT_RELEASE>>>>
    /\ mouse_vector = <<0, 0>>

(* ------------------------------------------------------------------ *)
(* C9                                                                 *)
(* ------------------------------------------------------------------ *)

\* C9: an iteration of the event loop whose message is note_on or note_off on
\* the configured channel invokes at most one handler: translate_keystroke
\* when the note is in key_binds; else translate_mouse_move when it is in
\* mouse_movement_binds; else translate_mouse_button when it is in
\* mouse_button_binds; else none.  A note of key_binds that is also in another
\* table sends one key event and leaves mouse_vector as it was, and a note
\* handled as a direction sends no event.
C9_FirstTableWins ==
    [][ (DispatchStep /\ IsNote(Handled) /\ Handled.channel = self.midi_channel)
            => LET n == Handled.note
                   invoked == calls'[Len(calls')]
               IN  /\ Len(calls') = Len(calls) + 1
                   /\ Len(invoked) <= 1
                   /\ n \in DOMAIN self.key_binds
                      => /\ invoked = <<"translate_keystroke">>
                         /\ Len(sent') = Len(sent) + 1
                         /\ sent'[Len(sent')][1] = "send_key_event"
                         /\ mouse_vector' = mouse_vector
                   /\ (n \notin DOMAIN self.key_binds
                          /\ n \in DOMAIN self.mouse_movement_binds)
                      => /\ invoked = <<"translate_mouse_move">>
                         /\ sent' = sent
                   /\ (n \notin DOMAIN self.key_binds
                          /\ n \notin DOMAIN self.mouse_movement_binds
                          /\ n \in DOMAIN self.mouse_button_binds)
                      => /\ invoked = <<"translate_mouse_button">>
                         /\ Len(sent') = Len(sent) + 1
                         /\ sent'[Len(sent')][1] = "send_mouse_button_event"
                         /\ mouse_vector' = mouse_vector
                   /\ Unbound(n)
                      => /\ invoked = <<>>
                         /\ sent' = sent
                         /\ mouse_vector' = mouse_vector ]_vars

\* Note 54, a key and a direction, was pressed: only the key was handled.
C9_Witness ==
    /\ 54 \in DOMAIN self.key_binds
    /\ 54 \in DOMAIN self.mouse_movement_binds
    /\ hist = <<NoteOn(self.midi_channel, 54)>>
    /\ calls = <<<<"translate_keystroke">>>>
    /\ sent = <<<<"send_key_event", W, PRESS>>>>
    /\ mouse_vector = <<0, 0>>

(* ------------------------------------------------------------------ *)
(* C10                                                                *)
(* ------------------------------------------------------------------ *)

\* The note_on and note_off messages for the note on the configured channel,
\* in the order of hist.
NoteEvents(note) ==
    SelectSeq(hist, LAMBDA m : IsNote(m) /\ m.channel = self.midi_channel
                                  /\ m.note = note)

\* They alternate note_on, note_off, note_on, ..., starting with note_on.
Alternates(note) ==
    \A k \in 1..Len(NoteEvents(note)) :
        NoteEvents(note)[k].type = IF k % 2 = 1 THEN "note_on" ELSE "note_off"

\* The note's last message on the configured channel was note_on.
Held(note) ==
    /\ NoteEvents(note) # <<>>
    /\ NoteEvents(note)[Len(NoteEvents(note))].type = "note_on"

\* No note is in two tables.
DisjointTables ==
    /\ DOMAIN self.key_binds \cap DOMAIN self.mouse_movement_binds = {}
    /\ DOMAIN self.key_binds \cap DOMAIN self.mouse_button_binds = {}
    /\ DOMAIN self.mouse_movement_binds \cap DOMAIN self.mouse_button_binds = {}

\* The sum of direction x mouse_sensitivity over a set of movement notes.
RECURSIVE HeldSum(_)
HeldSum(notes) ==
    IF notes = {} THEN <<0, 0>>
    ELSE LET n == CHOOSE n \in notes : TRUE
             rest == HeldSum(notes \ {n})
             direction == self.mouse_movement_binds[n]
         IN  <<rest[1] + direction[1] * self.mouse_sensitivity,
               rest[2] + direction[2] * self.mouse_sensitivity>>

\* C10: when the tables are disjoint and, for every note, the note_on and
\* note_off messages on the configured channel alternate starting with
\* note_on, then after the event loop has handled any prefix of the messages
\* mouse_vector is the sum of direction x mouse_sensitivity over the notes of
\* mouse_movement_binds whose last such message was note_on.
C10_VectorIsSumOfHeld ==
    (Processed /\ DisjointTables /\ \A n \in Notes : Alternates(n))
        => mouse_vector =
               HeldSum({n \in DOMAIN self.mouse_movement_binds : Held(n)})

\* Two directions were pressed and one of them released again.
C10_Witness ==
    /\ DisjointTables
    /\ self.mouse_sensitivity = 4
    /\ hist = <<NoteOn(0, 65), NoteOn(0, 67), NoteOff(0, 65)>>
    /\ Held(67) /\ ~Held(65)
    /\ mouse_vector = <<4, 0>>

(* ------------------------------------------------------------------ *)
(* Startup                                                            *)
(* ------------------------------------------------------------------ *)

\* A step in which __init__ runs.
ConstructStep == mainPc = "init" /\ mainPc' # "init"

\* The positions of the names that contain the identifier, case ignored.
Matching == {i \in 1..Len(input_names) : Contains(lower(identifier), lower(input_names[i]))}

FirstMatching == CHOOSE i \in Matching : \A j \in Matching : i <= j

\* C11: the constructor opens the first enumerated port whose name contains
\* the identifier, case ignored ("Casio" opens "Casio USB MIDI", "ctk" opens
\* "CASIO CTK"); when no name matches, or the first matching port is in use,
\* the process exits, and then the pump is never started, no event is
\* dispatched and no action is emitted.
C11_FirstMatchOpenedOrExit ==
    /\ [][ConstructStep =>
            /\ IF Matching = {} \/ input_names[FirstMatching] \in busy
               THEN mainPc' = "exited" /\ midi_port' = <<>>
               ELSE mainPc' = "start" /\ midi_port' = input_names[FirstMatching]
            /\ (identifier = IDENTIFIER_CASIO /\ input_names = <<MIDI_THROUGH, CASIO_USB_MIDI>>
                    /\ busy = {CASIO_CTK})
                 => midi_port' = CASIO_USB_MIDI
            /\ (identifier = IDENTIFIER_CTK /\ input_names = <<CASIO_CTK, CASIO_USB_MIDI>>
                    /\ busy = {})
                 => midi_port' = CASIO_CTK
            /\ (identifier = IDENTIFIER_KORG) => mainPc' = "exited"]_vars
    /\ [](mainPc = "exited" =>
            /\ pumpPc = "unstarted"
            /\ hist = <<>> /\ calls = <<>>
            /\ sent = <<>> /\ sampled = <<>> /\ moved = <<>>)
    /\ [][mainPc = "exited" => UNCHANGED vars]_vars

\* A port was opened although an earlier name did not match, and events flow.
C11_Witness ==
    /\ midi_port = CASIO_USB_MIDI
    /\ mainPc = "loop"
    /\ Len(hist) = 2
    /\ moved # <<>>

\* The process exited on a port held by another process.
C11_WitnessExit ==
    /\ mainPc = "exited"
    /\ \E i \in 1..Len(logs) : logs[i] = <<"Error", "appears to be in use by another process">>

(* ------------------------------------------------------------------ *)
(* The pump next to the event loop                                    *)
(* ------------------------------------------------------------------ *)

\* A step in which mouse_handler finishes a reading and sends the movement.
SendStep == pumpPc = "unpacking" /\ pumpPc' = "running"

\* mouse_vector as it was after the first i messages.
VectorAt(i) == VectorAfter(self, <<0, 0>>, SubSeq(hist, 1, i))

Alone(message) ==
    triage_message(self, [sent |-> <<>>, logs |-> <<>>, mouse_vector |-> <<0, 0>>], message)

\* The notes the elif chain hands to translate_mouse_move, and those it hands
\* to translate_mouse_button.
MoveNotes == DOMAIN self.mouse_movement_binds \ DOMAIN self.key_binds
ButtonNotes ==
    DOMAIN self.mouse_button_binds
        \ (DOMAIN self.key_binds \cup DOMAIN self.mouse_movement_binds)

\* C13: the effect of a message depends on its note and kind only, never on
\* what was handled before: it adds to mouse_vector, to the calls sent and to
\* the lines logged what the same message adds on its own.  So note_off for a
\* note handled as a movement, with no note_on before, subtracts direction x
\* sensitivity from (0, 0); k times note_on for it adds k times direction x
\* sensitivity; and note_off for a note handled as a button, with no note_on
\* before, sends the release flag.
C13_NoHeldState ==
    /\ [][(DispatchStep /\ HasChannel(Handled)) =>
            /\ mouse_vector' = <<mouse_vector[1] + Alone(Handled).mouse_vector[1],
                                 mouse_vector[2] + Alone(Handled).mouse_vector[2]>>
            /\ sent' = sent \o Alone(Handled).sent
            /\ logs' = logs \o Alone(Handled).logs]_vars
    /\ [](\A n \in MoveNotes :
            LET direction == self.mouse_movement_binds[n]
                k == Len(hist)
            IN  /\ hist = <<NoteOff(self.midi_channel, n)>>
                     => mouse_vector = <<-(direction[1] * self.mouse_sensitivity),
                                         -(direction[2] * self.mouse_sensitivity)>>
                /\ (\A i \in 1..k : hist[i] = NoteOn(self.midi_channel, n))
                     => mouse_vector = <<k * direction[1] * self.mouse_sensitivity,
                                         k * direction[2] * self.mouse_sensitivity>>)
    /\ [](\A n \in ButtonNotes :
            hist = <<NoteOff(self.midi_channel, n)>>
                => sent = <<<<"send_mouse_button_event", self.mouse_button_binds[n][2]>>>>)

\* note_off for RIGHT without a note_on drove x below zero, and three note_on
\* for DOWN in a row added three times its contribution.
C13_Witness ==
    /\ self.mouse_sensitivity = 4
    /\ \/ hist = <<NoteOff(0, 67)>> /\ mouse_vector = <<-4, 0>>
       \/ hist = <<NoteOn(0, 65), NoteOn(0, 65), NoteOn(0, 65)>> /\ mouse_vector = <<0, 12>>

\* C14: the pump is started before the first message is handled; every
\* iteration of its loop sends one movement, (0, 0) included, computed from
\* the sample; and when the scheduler keeps running the pump, a started pump
\* begins and finishes iterations for ever, whether or not a message arrives.
C14_PumpSendsForEver ==
    /\ [](hist # <<>> => pumpPc # "unstarted")
    /\ [][SendStep =>
            /\ moved' = Delta(sampled'[1], sampled'[2])
            /\ (sampled' = <<0, 0>> => moved' = <<0, 0>>)
            /\ (Abs(sampled'[1]) = 1 /\ Abs(sampled'[2]) = 1 => moved' = <<0, 0>>)]_vars
    /\ (pumpPc = "running") ~> (pumpPc = "unpacking")
    /\ (pumpPc = "unpacking") ~> (pumpPc = "running")

\* No message has arrived, the pump has sent (0, 0) and is in its next
\* iteration.
C14_Witness ==
    /\ hist = <<>>
    /\ moved = <<0, 0>>
    /\ pumpPc = "unpacking"

\* A step of the pump alone: the main thread does not move.
TickStep == pumpPc = "running" /\ pumpPc' = "running" /\ hist' = hist /\ mainPc' = mainPc

\* C15: an iteration of the pump leaves mouse_vector as it is and samples all
\* of it: with disjoint tables and alternating note_on and note_off per note,
\* the sample is the sum of direction x sensitivity over the movement notes
\* that are down, both of them while two are down and the other one after one
\* of them is released; scaling and truncation change the movement sent, not
\* the vector.
C15_TickLeavesVector ==
    [][TickStep =>
        /\ mouse_vector' = mouse_vector
        /\ sampled' = mouse_vector
        /\ (DisjointTables /\ \A n \in Notes : Alternates(n))
             => sampled' = HeldSum({n \in DOMAIN self.mouse_movement_binds : Held(n)})]_vars

\* RIGHT and DOWN were down and sampled as a diagonal, scaled when sent, and
\* the vector still holds both in full.
C15_Witness ==
    /\ hist = <<NoteOn(0, 67), NoteOn(0, 65)>>
    /\ self.mouse_sensitivity = 4
    /\ sampled = <<4, 4>>
    /\ moved = <<3, 3>>
    /\ mouse_vector = <<4, 4>>

\* C16: the movement sent is a function of the sample of the same iteration
\* and of nothing else: the sample itself, or, for a diagonal, each component
\* times sin_45 truncated toward zero; equal samples give equal movements, and
\* a diagonal whose scaled components stay below 1 is sent as (0, 0) every
\* time.
C16_MovementFromSampleOnly ==
    sampled # <<>> =>
        /\ moved = IF Abs(sampled[1]) = Abs(sampled[2]) /\ sampled[1] # 0
                   THEN <<Trunc(sampled[1] * SIN_45_NUM, SIN_45_DEN),
                          Trunc(sampled[2] * SIN_45_NUM, SIN_45_DEN)>>
                   ELSE sampled
        /\ (Abs(sampled[1]) = 1 /\ Abs(sampled[2]) = 1) => moved = <<0, 0>>

\* With sensitivity 1, RIGHT and DOWN were down through other messages and an
\* earlier iteration, and the diagonal (1, 1) was sent as (0, 0).
C16_Witness ==
    /\ self.mouse_sensitivity = 1
    /\ Len(hist) = 3
    /\ mouse_vector = <<1, 1>>
    /\ sampled = <<1, 1>>
    /\ moved = <<0, 0>>

\* The event loop has ended: line 85 raised, or the port was closed.
LoopEnded == mainPc \in {"crashed", "returned"}

\* C17: once the event loop has ended, the pump sends no further movement.
C17_NoMovementAfterLoopEnds ==
    [][LoopEnded => ~SendStep]_vars

\* C18: a constructor called with a note that is in more than one of the three
\* tables does not return an engine.
C18_SharedNoteRejected ==
    [][(ConstructStep /\ ~DisjointTables) => mainPc' = "exited"]_vars

\* The signed contribution of one message: for note_on, or note_off, on the
\* configured channel for a note handled as a movement, plus, or minus,
\* direction x sensitivity; nothing otherwise.
Contribution(message) ==
    IF IsNote(message) /\ message.channel = self.midi_channel /\ message.note \in MoveNotes
    THEN LET direction == self.mouse_movement_binds[message.note]
             sign == IF message.type = "note_on" THEN 1 ELSE -1
         IN  <<sign * direction[1] * self.mouse_sensitivity,
               sign * direction[2] * self.mouse_sensitivity>>
    ELSE <<0, 0>>

RECURSIVE SignedSum(_)
SignedSum(seq) ==
    IF seq = <<>> THEN <<0, 0>>
    ELSE LET rest == SignedSum(Tail(seq))
         IN  <<Contribution(Head(seq))[1] + rest[1], Contribution(Head(seq))[2] + rest[2]>>

\* C19: only the event loop writes mouse_vector, so whatever the pump does in
\* between, and wherever it is in its reading, mouse_vector is the signed sum
\* of the contributions of all the messages handled so far.
C19_NoUpdateLost ==
    /\ [](mouse_vector = SignedSum(hist))
    /\ [][hist' = hist => mouse_vector' = mouse_vector]_vars

\* The pump read x, two messages were handled before it read y, it sent the
\* torn sample and is reading again, and the vector holds all three
\* contributions.
C19_Witness ==
    /\ hist = <<NoteOn(0, 67), NoteOn(0, 67), NoteOff(0, 65)>>
    /\ self.mouse_sensitivity = 4
    /\ sampled = <<4, -4>>
    /\ pumpPc = "unpacking"
    /\ mouse_vector = <<8, -4>>

\* C20: the movement sent for the opposite sample is the opposite movement,
\* and a diagonal is scaled by its magnitudes whatever its signs: (4, 4) is
\* sent as (3, 3), (-4, -4) as (-3, -3) and (4, -4) as (3, -3).
C20_OddSymmetric ==
    sampled # <<>> =>
        /\ Delta(-sampled[1], -sampled[2]) = <<-moved[1], -moved[2]>>
        /\ Delta(Abs(sampled[1]), Abs(sampled[2])) = <<Abs(moved[1]), Abs(moved[2])>>
        /\ (moved[1] >= 0) = (sampled[1] >= 0 \/ moved[1] = 0)
        /\ (moved[2] >= 0) = (sampled[2] >= 0 \/ moved[2] = 0)
        /\ sampled = <<4, 4>> => moved = <<3, 3>>
        /\ sampled = <<-4, -4>> => moved = <<-3, -3>>
        /\ sampled = <<4, -4>> => moved = <<3, -3>>
        /\ sampled = <<-1, 1>> => moved = <<0, 0>>

\* note_off for RIGHT and for DOWN without a note_on: the diagonal (-4, -4),
\* sent as (-3, -3).
C20_Witness ==
    /\ self.mouse_sensitivity = 4
    /\ mouse_vector = <<-4, -4>>
    /\ sampled = <<-4, -4>>
    /\ moved = <<-3, -3>>

====
